---- MODULE Spec2Model ----
(***************************************************************************)
(* Predictive-maintenance engine (HotelMaintenanceModel, models.py) with   *)
(* its durable artifacts, its training writer, its readers and the         *)
(* process restart that runs _load_persisted_data.                         *)
(***************************************************************************)
EXTENDS Integers, Sequences, FiniteSets, TLC

VARIABLES
    hotel_model,          \* self.hotel_model: the regressor object (or None)
    loaded_training_df,   \* self.loaded_training_df
    model_metrics,        \* self.model_metrics
    loaded_file_path,     \* self.loaded_file_path (not set by __init__)
    disk_model,           \* the file at MODEL_PATH
    disk_data,            \* the file at DATA_PATH
    startup_error,        \* an exception escaped __init__
    tpc, tdf, tscore, trun,            \* train_model calls, one per thread
    tpre,                 \* per call: the engine fields as the call found them
    rpc, rop, rdf, ri, rused, rres,    \* the reader operation in flight
    rstart,               \* the engine as the reader operation found it
    lres,                 \* how the load_hotel_data call just made ended
    missing_cols,         \* the columns named by the call that just failed validation
    qcall, qres,          \* the query last answered on the engine, and its answer
    nruns,                \* train_model calls that passed validation so far
    overlap,              \* another writer ran during the train in flight
    fresh,                \* no operation has run since construction
    everSucceeded         \* a train_model returned or a reload loaded something

engine == <<hotel_model, loaded_training_df, model_metrics, loaded_file_path>>
disk == <<disk_model, disk_data>>
trainers == <<tpc, tdf, tscore, trun, tpre>>
reader == <<rpc, rop, rdf, ri, rused, rres, rstart>>
query == <<qcall, qres>>
vars == <<engine, disk, startup_error, trainers, reader, lres, missing_cols, query, nruns,
          overlap, fresh, everSucceeded>>

-----------------------------------------------------------------------------
(* Bounds *)
MaxRuns == 2

-----------------------------------------------------------------------------
(* Cells, rows and tables (pandas DataFrames) *)

NaN == -9999                 \* a null numeric cell (np.nan)
NotNum == -9998              \* a numeric column's cell holding text
NullStatus == "<null>"       \* a null Status cell

features == <<"Usage Hours", "Average_Daily_Usage", "Device_Year">>
target == "Days Since Maintenance"
required_lookup_cols == <<"Room Number", "Appliance Type",
                          "Last Maintenance Date", "Status", "Warranty Year">>
train_required == features \o <<target>> \o required_lookup_cols
metric_required == features \o <<target>>

Range(s) == {s[i] : i \in 1..Len(s)}

\* A last-maintenance cell: a date string (its separator, its three numbers
\* and how many digits each is written with), a string that is no date, or a
\* null cell.
DateStr(sep, n, w) == [k |-> "str", sep |-> sep, n |-> n, w |-> w]
NullDate == [k |-> "nan", sep |-> "", n |-> <<0, 0, 0>>, w |-> <<0, 0, 0>>]
TextDate == [k |-> "text", sep |-> "", n |-> <<0, 0, 0>>, w |-> <<0, 0, 0>>]

Row(room, type, date, usage, daily, year, days, status, warranty) ==
    [room |-> room, type |-> type, date |-> date, usage |-> usage,
     daily |-> daily, year |-> year, days |-> days, status |-> status,
     warranty |-> warranty]

AllCols == Range(train_required)
EmptyDF == [cols |-> {}, rows |-> <<>>]          \* pd.DataFrame()
IsEmpty(df) == Len(df.rows) = 0                  \* df.empty

IsNum(v) == v # NaN /\ v # NotNum
FeatureVec(row) == <<row.usage, row.daily, row.year>>

\* The feature vectors the regressor is asked about.
UsageVals == {100, 500}
DailyVals == {2}
YearVals == {2020}
FeatureVectors == UsageVals \X DailyVals \X YearVals

-----------------------------------------------------------------------------
(* The regressor (sklearn.ensemble.GradientBoostingRegressor) *)

NoOut == [x \in FeatureVectors |-> 0]
None == [state |-> "None", out |-> NoOut]
Unfitted == [state |-> "unfitted", out |-> NoOut]   \* GradientBoostingRegressor(random_state=42)

\* (X, y) of a table: what fit sees.
XY(df) == [i \in 1..Len(df.rows) |-> <<FeatureVec(df.rows[i]), df.rows[i].days>>]

\* fit raises on an empty table and on a null or non-numeric cell.
CanFit(df) ==
    /\ ~IsEmpty(df)
    /\ \A i \in 1..Len(df.rows) :
          /\ IsNum(df.rows[i].usage) /\ IsNum(df.rows[i].daily)
          /\ IsNum(df.rows[i].year) /\ IsNum(df.rows[i].days)

RECURSIVE SumY(_)
SumY(xy) == IF Len(xy) = 0 THEN 0 ELSE xy[1][2] + SumY(Tail(xy))

\* The fitted function, fixed by the data and the seed: in-sample it returns
\* the last target seen for the vector, elsewhere the mean target.
Regress(xy, x) ==
    LET hits == {i \in 1..Len(xy) : xy[i][1] = x}
    IN  IF hits = {} THEN SumY(xy) \div Len(xy)
        ELSE xy[CHOOSE i \in hits : \A j \in hits : j <= i][2]

Fit(df) == [state |-> "fitted",
            out |-> [x \in FeatureVectors |-> Regress(XY(df), x)]]

\* r2_score / mean_absolute_error / sqrt(mean_squared_error) of a model on a table.
NoMetric == [set |-> FALSE, of |-> NoOut, on |-> <<>>]
Score(m, df) == [set |-> TRUE, of |-> m.out, on |-> XY(df)]
NoMetrics == [r2_score |-> NoMetric, mae |-> NoMetric, rmse |-> NoMetric]
NoPre == [hotel_model |-> None, loaded_training_df |-> EmptyDF,
          model_metrics |-> NoMetrics]

-----------------------------------------------------------------------------
(* The tables of the model: uploads, hotel files, artifacts of earlier runs *)

D1 == DateStr("/", <<1, 1, 2023>>, <<2, 2, 4>>)        \* "01/01/2023"
D2 == DateStr("/", <<3, 4, 2024>>, <<2, 2, 4>>)        \* "03/04/2024"

UploadA == [cols |-> AllCols, rows |->
    << Row(2000, "TV", D1, 500, 2, 2020, 300, "Working", 2025),
       Row(2000, "AC", D2, 100, 2, 2020, 90, NullStatus, NaN) >>]
UploadB == [cols |-> AllCols, rows |->
    << Row(2000, "TV", D2, 100, 2, 2020, 40, "Broken", 2030) >>]
UploadNoWarranty == [cols |-> AllCols \ {"Warranty Year"}, rows |->
    << Row(2000, "TV", D1, 500, 2, 2020, 300, "Working", NaN) >>]
UploadTextTarget == [cols |-> AllCols, rows |->
    << Row(2000, "TV", D1, 500, 2, 2020, NotNum, "Working", 2025) >>]
Uploads == {UploadA, UploadB, UploadNoWarranty, UploadTextTarget}

-----------------------------------------------------------------------------
(* Durable artifacts and startup: __init__ and _load_persisted_data *)

NoFile == "absent"
Garbled == "corrupt"      \* a truncated or otherwise unreadable file
AbsentModel == [k |-> NoFile, by |-> 0, val |-> None]
AbsentData == [k |-> NoFile, by |-> 0, val |-> EmptyDF]
CorruptModel == [k |-> Garbled, by |-> 0, val |-> None]
CorruptData == [k |-> Garbled, by |-> 0, val |-> EmptyDF]
ModelFile(run, m) == [k |-> "file", by |-> run, val |-> m]
DataFile(run, df) == [k |-> "file", by |-> run, val |-> df]

Unset == "<unset>"        \* an attribute __init__ never assigns

\* hotel_model.predict(X) and the three metric functions raise on an unfitted
\* model and on a null or non-numeric cell of X or y.
ScoreRaises(m, df) == m.state # "fitted" \/ ~CanFit(df)

\* As load_model, without the try/except around joblib.load.
load_model_unguarded(dm) ==
    IF dm.k = NoFile THEN [model |-> None, escaped |-> FALSE]
    ELSE IF dm.k = Garbled THEN [model |-> None, escaped |-> TRUE]
    ELSE [model |-> dm.val, escaped |-> FALSE]

\* Lines 34-42: the model file, its load guarded by try/except.
load_model(dm) ==
    IF dm.k = NoFile THEN [model |-> None, escaped |-> FALSE]
    ELSE IF dm.k = Garbled THEN [model |-> None, escaped |-> FALSE]
    ELSE [model |-> dm.val, escaped |-> FALSE]

\* As load_data, with the rmse assignment of line 60 left out.
load_data_no_rmse(m, dd) ==
    IF dd.k = NoFile
    THEN [df |-> EmptyDF, metrics |-> NoMetrics, escaped |-> FALSE]
    ELSE IF dd.k = Garbled
    THEN [df |-> EmptyDF, metrics |-> NoMetrics, escaped |-> FALSE]
    ELSE IF m # None /\ ~IsEmpty(dd.val)
            /\ Range(metric_required) \subseteq dd.val.cols
    THEN IF ScoreRaises(m, dd.val)
         THEN [df |-> EmptyDF, metrics |-> NoMetrics, escaped |-> FALSE]
         ELSE [df |-> dd.val,
               metrics |-> [r2_score |-> Score(m, dd.val),
                            mae |-> Score(m, dd.val),
                            rmse |-> NoMetric],
               escaped |-> FALSE]
    ELSE [df |-> dd.val, metrics |-> NoMetrics, escaped |-> FALSE]

\* Lines 45-66: the dataset file and, inside the same try, the metrics.
load_data(m, dd) ==
    IF dd.k = NoFile
    THEN [df |-> EmptyDF, metrics |-> NoMetrics, escaped |-> FALSE]
    ELSE IF dd.k = Garbled
    THEN [df |-> EmptyDF, metrics |-> NoMetrics, escaped |-> FALSE]
    ELSE IF m # None /\ ~IsEmpty(dd.val)
            /\ Range(metric_required) \subseteq dd.val.cols
    THEN IF ScoreRaises(m, dd.val)
         THEN [df |-> EmptyDF, metrics |-> NoMetrics, escaped |-> FALSE]
         ELSE [df |-> dd.val,
               metrics |-> [r2_score |-> Score(m, dd.val),
                            mae |-> Score(m, dd.val),
                            rmse |-> Score(m, dd.val)],
               escaped |-> FALSE]
    ELSE [df |-> dd.val, metrics |-> NoMetrics, escaped |-> FALSE]

\* __init__ (lines 18-26) followed by _load_persisted_data (lines 28-66).
_load_persisted_data(dm, dd) ==
    LET lm == load_model(dm)
        ld == load_data(lm.model, dd)
    IN  [hotel_model |-> lm.model,
         loaded_training_df |-> IF lm.escaped THEN EmptyDF ELSE ld.df,
         model_metrics |-> IF lm.escaped THEN NoMetrics ELSE ld.metrics,
         escaped |-> lm.escaped \/ ld.escaped]

Threads == {"t1", "t2"}
ReaderOps == {"predict_for_room", "get_device_details",
              "get_dashboard_insights", "get_upcoming_maintenance_devices",
              "get_current_week_maintenance_devices"}
NoStart == [model |-> None, df |-> EmptyDF, quiet |-> FALSE]
NoCall == [op |-> "none", room |-> 0, type |-> "", now |-> 0]
NoMissing == [by |-> "none", cols |-> <<>>]
NoStats == [total_devices |-> 0, running |-> 0, down |-> 0, due_maintenance |-> 0,
            under_maintenance |-> 0, loaded_data_file |-> ""]
NoAnswer == [raised |-> "none", entries |-> <<>>, used |-> <<>>, stats |-> NoStats]

\* The engine a fresh process builds over the artifacts dm, dd.
Boot(dm, dd) ==
    LET b == _load_persisted_data(dm, dd) IN
    /\ hotel_model' = b.hotel_model
    /\ loaded_training_df' = b.loaded_training_df
    /\ model_metrics' = b.model_metrics
    /\ loaded_file_path' = Unset
    /\ startup_error' = b.escaped
    /\ tpc' = [t \in Threads |-> "idle"]
    /\ tdf' = [t \in Threads |-> EmptyDF]
    /\ tpre' = [t \in Threads |-> NoPre]
    /\ tscore' = [t \in Threads |-> NoMetric]
    /\ trun' = [t \in Threads |-> 0]
    /\ rpc' = "idle" /\ rop' = "none" /\ rdf' = EmptyDF /\ ri' = 0
    /\ rused' = <<>> /\ rres' = "none" /\ rstart' = NoStart
    /\ lres' = "none" /\ missing_cols' = NoMissing /\ overlap' = FALSE
    /\ qcall' = NoCall /\ qres' = NoAnswer
    /\ fresh' = TRUE
    /\ everSucceeded' = (b.hotel_model # None \/ ~IsEmpty(b.loaded_training_df))

\* Status nulls filled as train_model does (line 86).
FillStatus(df) ==
    [df EXCEPT !.rows = [i \in 1..Len(df.rows) |->
        IF df.rows[i].status = NullStatus
        THEN [df.rows[i] EXCEPT !.status = "Unknown"]
        ELSE df.rows[i]]]

\* The artifacts an earlier process can have left: none, or the pair a
\* completed train_model wrote.
PriorTables == {FillStatus(UploadA), FillStatus(UploadB)}
PairedDisks ==
    {<<AbsentModel, AbsentData>>}
    \cup {<<ModelFile(0, Fit(df)), DataFile(0, df)>> : df \in PriorTables}

\* Any content of the two paths, whoever wrote it.
TableNoTarget == [cols |-> AllCols \ {target}, rows |->
    << Row(2000, "TV", D1, 500, 2, 2020, NaN, "Working", 2025) >>]
EmptyTable == [cols |-> AllCols, rows |-> <<>>]
AnyModelFiles == {AbsentModel, CorruptModel, ModelFile(0, Unfitted)}
                 \cup {ModelFile(0, Fit(df)) : df \in PriorTables}
AnyDataFiles == {AbsentData, CorruptData}
                \cup {DataFile(0, df) : df \in PriorTables
                        \cup {TableNoTarget, UploadTextTarget, EmptyTable}}

InitOn(disks) ==
    \E d \in disks :
        LET b == _load_persisted_data(d[1], d[2]) IN
        /\ disk_model = d[1] /\ disk_data = d[2]
        /\ hotel_model = b.hotel_model
        /\ loaded_training_df = b.loaded_training_df
        /\ model_metrics = b.model_metrics
        /\ loaded_file_path = Unset
        /\ startup_error = b.escaped
        /\ tpc = [t \in Threads |-> "idle"]
        /\ tdf = [t \in Threads |-> EmptyDF]
        /\ tpre = [t \in Threads |-> NoPre]
        /\ tscore = [t \in Threads |-> NoMetric]
        /\ trun = [t \in Threads |-> 0]
        /\ rpc = "idle" /\ rop = "none" /\ rdf = EmptyDF /\ ri = 0
        /\ rused = <<>> /\ rres = "none" /\ rstart = NoStart
        /\ lres = "none" /\ missing_cols = NoMissing /\ overlap = FALSE
        /\ qcall = NoCall /\ qres = NoAnswer
        /\ nruns = 0
        /\ fresh = TRUE
        /\ everSucceeded = (b.hotel_model # None \/ ~IsEmpty(b.loaded_training_df))

Init == InitOn(PairedDisks)
InitAnyDisk == InitOn(AnyModelFiles \X AnyDataFiles)

-----------------------------------------------------------------------------
(* train_model, statement by statement (models.py lines 68-120) *)

\* The fields a train_model call can assign, as they are when it begins.
Pre == [hotel_model |-> hotel_model, loaded_training_df |-> loaded_training_df,
        model_metrics |-> model_metrics]

InFlight == {"L95", "L96", "L99", "L105", "L110", "L111", "L112"}
Quiescent(pcs) == \A t \in Threads : pcs[t] \notin InFlight

\* What every step of a running process leaves behind.
Step == fresh' = FALSE /\ lres' = "none" /\ missing_cols' = NoMissing

MissingCols(df, required) ==
    SelectSeq(required, LAMBDA c : c \notin df.cols)

\* The columns a failure message lists, and the operation that raised it.
Named(by, cols) ==
    IF cols = <<>> THEN NoMissing ELSE [by |-> by, cols |-> cols]

\* As TrainRejected, with the validation placed after line 95.
TrainRejectedLate(t, df) ==
    /\ tpc[t] = "idle"
    /\ MissingCols(df, train_required) # <<>>
    /\ tpc' = [tpc EXCEPT ![t] = "ValueError"]
    /\ tdf' = [tdf EXCEPT ![t] = df]
    /\ missing_cols' = Named("train_model", MissingCols(df, train_required))
    /\ hotel_model' = Unfitted
    /\ UNCHANGED <<loaded_training_df, model_metrics, loaded_file_path, disk,
                   startup_error, tscore, trun, tpre, reader,
                   nruns, overlap, everSucceeded,
                   query>>
    /\ fresh' = FALSE /\ lres' = "none"

\* Lines 76-83: the call is refused before anything is assigned; the message
\* names the absent columns in the order line 82 walks them.
TrainRejected(t, df) ==
    /\ tpc[t] = "idle"
    /\ MissingCols(df, train_required) # <<>>
    /\ tpc' = [tpc EXCEPT ![t] = "ValueError"]
    /\ tdf' = [tdf EXCEPT ![t] = df]
    /\ missing_cols' = Named("train_model", MissingCols(df, train_required))
    /\ UNCHANGED <<engine, disk, startup_error, tscore, trun, tpre, reader,
                   nruns, overlap, everSucceeded,
                   query>>
    /\ fresh' = FALSE /\ lres' = "none"

\* Lines 76-92: validation passes, Status nulls are filled, X and y are taken.
TrainAccepted(t, df) ==
    /\ tpc[t] = "idle"
    /\ nruns < MaxRuns
    /\ MissingCols(df, train_required) = <<>>
    /\ nruns' = nruns + 1
    /\ trun' = [trun EXCEPT ![t] = nruns + 1]
    /\ tdf' = [tdf EXCEPT ![t] = FillStatus(df)]
    /\ tpre' = [tpre EXCEPT ![t] = Pre]
    /\ tpc' = [tpc EXCEPT ![t] = "L95"]
    /\ overlap' = ~Quiescent(tpc)
    /\ UNCHANGED <<engine, disk, startup_error, tscore, reader, everSucceeded,
                   query>>
    /\ Step

\* Line 95: a new, unfitted regressor becomes self.hotel_model.
TrainInstall(t) ==
    /\ tpc[t] = "L95"
    /\ hotel_model' = Unfitted
    /\ tpc' = [tpc EXCEPT ![t] = "L96"]
    /\ UNCHANGED <<loaded_training_df, model_metrics, loaded_file_path, disk,
                   startup_error, tdf, tpre, tscore, trun, reader, nruns, overlap,
                   everSucceeded,
                   query>>
    /\ Step

\* The call ends by an exception raised at the statement it is at.
Raise(t, what) == tpc' = [tpc EXCEPT ![t] = what]

\* Line 96: self.hotel_model.fit(X, y) fits the object the field holds now.
TrainFit(t) ==
    /\ tpc[t] = "L96"
    /\ IF CanFit(tdf[t])
       THEN /\ hotel_model' = Fit(tdf[t])
            /\ tpc' = [tpc EXCEPT ![t] = "L99"]
       ELSE /\ hotel_model' = hotel_model
            /\ Raise(t, "FitError")
    /\ UNCHANGED <<loaded_training_df, model_metrics, loaded_file_path, disk,
                   startup_error, tdf, tpre, tscore, trun, reader, nruns, overlap,
                   everSucceeded,
                   query>>
    /\ Step

\* Lines 99-102: predict on X with the field's current object, then the metrics.
TrainScore(t) ==
    /\ tpc[t] = "L99"
    /\ IF ScoreRaises(hotel_model, tdf[t])
       THEN /\ Raise(t, "NotFittedError")
            /\ tscore' = tscore
       ELSE /\ tscore' = [tscore EXCEPT ![t] = Score(hotel_model, tdf[t])]
            /\ tpc' = [tpc EXCEPT ![t] = "L105"]
    /\ UNCHANGED <<engine, disk, startup_error, tdf, tpre, trun, reader, nruns,
                   overlap, everSucceeded,
                   query>>
    /\ Step

\* Lines 105-107: the three metrics are stored.
TrainMetrics(t) ==
    /\ tpc[t] = "L105"
    /\ model_metrics' = [r2_score |-> tscore[t], mae |-> tscore[t],
                         rmse |-> tscore[t]]
    /\ tpc' = [tpc EXCEPT ![t] = "L110"]
    /\ UNCHANGED <<hotel_model, loaded_training_df, loaded_file_path, disk,
                   startup_error, tdf, tpre, tscore, trun, reader, nruns, overlap,
                   everSucceeded,
                   query>>
    /\ Step

\* As TrainDumpModel, dumping a regressor that was never fitted.
TrainDumpModelUnfitted(t) ==
    /\ tpc[t] = "L110"
    /\ \/ /\ disk_model' = ModelFile(trun[t], Unfitted)
          /\ tpc' = [tpc EXCEPT ![t] = "L111"]
       \/ /\ disk_model' \in {disk_model, CorruptModel}
          /\ Raise(t, "OSError")
    /\ UNCHANGED <<engine, disk_data, startup_error, tdf, tpre, tscore, trun, reader,
                   nruns, overlap, everSucceeded,
                   query>>
    /\ Step

\* Line 110: joblib.dump of the field's current object; the write can fail and
\* then leaves the old file or a truncated one.
TrainDumpModel(t) ==
    /\ tpc[t] = "L110"
    /\ \/ /\ disk_model' = ModelFile(trun[t], hotel_model)
          /\ tpc' = [tpc EXCEPT ![t] = "L111"]
       \/ /\ disk_model' \in {disk_model, CorruptModel}
          /\ Raise(t, "OSError")
    /\ UNCHANGED <<engine, disk_data, startup_error, tdf, tpre, tscore, trun, reader,
                   nruns, overlap, everSucceeded,
                   query>>
    /\ Step

\* Line 111: the dataset field takes a copy of the call's table.
TrainSetData(t) ==
    /\ tpc[t] = "L111"
    /\ loaded_training_df' = tdf[t]
    /\ tpc' = [tpc EXCEPT ![t] = "L112"]
    /\ UNCHANGED <<hotel_model, model_metrics, loaded_file_path, disk,
                   startup_error, tdf, tpre, tscore, trun, reader, nruns, overlap,
                   everSucceeded,
                   query>>
    /\ Step

\* Lines 112-120: to_pickle of the field's current table, then the return.
TrainDumpData(t) ==
    /\ tpc[t] = "L112"
    /\ \/ /\ disk_data' = DataFile(trun[t], loaded_training_df)
          /\ Raise(t, "ok")
          /\ everSucceeded' = TRUE
       \/ /\ disk_data' \in {disk_data, CorruptData}
          /\ Raise(t, "OSError")
          /\ UNCHANGED everSucceeded
    /\ UNCHANGED <<engine, disk_model, startup_error, tdf, tpre, tscore, trun, reader,
                   nruns, overlap,
                   query>>
    /\ Step

\* The caller has the call's outcome; the thread is free again.
TrainReturn(t) ==
    /\ tpc[t] \notin InFlight \cup {"idle"}
    /\ tpc' = [tpc EXCEPT ![t] = "idle"]
    /\ tdf' = [tdf EXCEPT ![t] = EmptyDF]
    /\ tpre' = [tpre EXCEPT ![t] = NoPre]
    /\ tscore' = [tscore EXCEPT ![t] = NoMetric]
    /\ trun' = [trun EXCEPT ![t] = 0]
    /\ UNCHANGED <<engine, disk, startup_error, reader, nruns, overlap,
                   everSucceeded,
                   query>>
    /\ Step

-----------------------------------------------------------------------------
(* load_hotel_data (models.py lines 542-601) *)

HotelNames == {"fairfield", "jwmarriott", "westin"}      \* HOTEL_CSV_FILES keys
HOTEL_CSV_FILES(name) ==
    CASE name = "fairfield" -> "FairField.csv"
      [] name = "jwmarriott" -> "JW Marriott.csv"
      [] name = "westin" -> "Westin.csv"

\* str.lower() on the names a caller can send.
Lower(name) ==
    CASE name = "FairField" -> "fairfield"
      [] name = "WESTIN" -> "westin"
      [] OTHER -> name
RequestedNames == {"fairfield", "FairField", "jwmarriott", "westin", "WESTIN",
                   "hilton"}

\* The CSV files beside the application: one complete, one absent, one
\* without its Status column.
HotelFair == [cols |-> AllCols, rows |->
    << Row(2000, "TV", D2, 100, 2, 2020, 40, "Working", 2030),
       Row(2000, "TV", D1, 500, 2, 2020, 300, NullStatus, NaN) >>]
HotelWestin == [cols |-> AllCols \ {"Status"}, rows |->
    << Row(2000, "TV", D1, 500, 2, 2020, 300, NullStatus, 2025) >>]
CsvExists(path) == path \in {"FairField.csv", "Westin.csv"}     \* os.path.exists
ReadCsv(path) == IF path = "FairField.csv" THEN HotelFair ELSE HotelWestin

hotel_required == <<"Room Number", "Appliance Type", "Last Maintenance Date",
                    "Usage Hours", "Days Since Maintenance",
                    "Average_Daily_Usage", "Device_Year", "Status",
                    "Warranty Year">>

\* Lines 585-596: the rows whose Status is 'working' or 'none' in any case,
\* or null.
working_devices_count(df) ==
    IF "Status" \in df.cols
    THEN Cardinality({i \in 1..Len(df.rows) :
            df.rows[i].status \in {"Working", "working", "WORKING",
                                   "None", "none", "NONE", NullStatus}})
    ELSE 0

\* As load_hotel_data, with the table stored before its columns are checked.
load_hotel_data_store_first(hotel_name) ==
    IF Lower(hotel_name) \notin HotelNames
    THEN [raised |-> "ValueError", load |-> FALSE, df |-> EmptyDF, file |-> Unset,
          missing |-> <<>>, working |-> 0]
    ELSE LET csv_file_path == HOTEL_CSV_FILES(Lower(hotel_name)) IN
         IF ~CsvExists(csv_file_path)
         THEN [raised |-> "FileNotFoundError", load |-> FALSE, df |-> EmptyDF,
               file |-> Unset, missing |-> <<>>, working |-> 0]
         ELSE LET df == ReadCsv(csv_file_path) IN
              IF MissingCols(df, hotel_required) # <<>>
              THEN [raised |-> "Exception", load |-> TRUE, df |-> df,
                    file |-> csv_file_path,
                    missing |-> MissingCols(df, hotel_required),
                    working |-> 0]
              ELSE [raised |-> "ok", load |-> TRUE, df |-> df,
                    file |-> csv_file_path, missing |-> <<>>,
                    working |-> working_devices_count(df)]

\* The outcome of the call: the exception it ends with, or the table to load.
load_hotel_data(hotel_name) ==
    IF Lower(hotel_name) \notin HotelNames
    THEN [raised |-> "ValueError", load |-> FALSE, df |-> EmptyDF, file |-> Unset,
          missing |-> <<>>, working |-> 0]
    ELSE LET csv_file_path == HOTEL_CSV_FILES(Lower(hotel_name)) IN
         IF ~CsvExists(csv_file_path)
         THEN [raised |-> "FileNotFoundError", load |-> FALSE, df |-> EmptyDF,
               file |-> Unset, missing |-> <<>>, working |-> 0]
         ELSE LET df == ReadCsv(csv_file_path) IN
              IF MissingCols(df, hotel_required) # <<>>
              THEN [raised |-> "Exception", load |-> FALSE, df |-> EmptyDF,
                    file |-> Unset,
                    missing |-> MissingCols(df, hotel_required),
                    working |-> 0]
              ELSE [raised |-> "ok", load |-> TRUE, df |-> df,
                    file |-> csv_file_path, missing |-> <<>>,
                    working |-> working_devices_count(df)]

\* As LoadHotelData, clearing the metrics whenever a table is loaded.
LoadHotelDataClearingMetrics(hotel_name) ==
    LET r == load_hotel_data(hotel_name) IN
    /\ lres' = r.raised
    /\ missing_cols' = Named("load_hotel_data", r.missing)
    /\ loaded_training_df' = IF r.load THEN r.df ELSE loaded_training_df
    /\ loaded_file_path' = IF r.load THEN r.file ELSE loaded_file_path
    /\ model_metrics' = IF r.load THEN NoMetrics ELSE model_metrics
    /\ overlap' = (overlap \/ (r.load /\ ~Quiescent(tpc)))
    /\ fresh' = FALSE
    /\ UNCHANGED <<hotel_model, disk, startup_error, trainers,
                   reader, nruns, everSucceeded,
                   query>>

LoadHotelData(hotel_name) ==
    LET r == load_hotel_data(hotel_name) IN
    /\ lres' = r.raised
    /\ missing_cols' = Named("load_hotel_data", r.missing)
    /\ loaded_training_df' = IF r.load THEN r.df ELSE loaded_training_df
    /\ loaded_file_path' = IF r.load THEN r.file ELSE loaded_file_path
    /\ overlap' = (overlap \/ (r.load /\ ~Quiescent(tpc)))
    /\ fresh' = FALSE
    /\ UNCHANGED <<hotel_model, model_metrics, disk, startup_error, trainers,
                   reader, nruns, everSucceeded,
                   query>>

-----------------------------------------------------------------------------
(* load_non_room_data (models.py lines 604-663) *)

non_room_required ==
    <<"DeviceID", "DeviceType", "Location", "DeviceYear", "WarrantyYear",
      "TotalUsageHours", "LastMaintenanceDate", "NextScheduledMaintenanceDates">>

\* What the path NON_ROOM_DATA can hold: nothing, an empty file, text that is
\* no CSV, or a table lacking up to MaxMissing of the required columns.
MaxMissing == 2
NonRoomRows == << [DeviceID |-> 1, DeviceYear |-> 2019, WarrantyYear |-> NaN],
                  [DeviceID |-> 2, DeviceYear |-> NaN, WarrantyYear |-> 2030] >>
NonRoomFiles ==
    {[k |-> e, cols |-> {}, rows |-> <<>>] : e \in {"absent", "empty", "garbled"}}
    \cup {[k |-> "csv", cols |-> Range(non_room_required) \ gone,
           rows |-> NonRoomRows] :
              gone \in {g \in SUBSET Range(non_room_required) :
                           Cardinality(g) <= MaxMissing}}

\* str(int(v)) if pd.notna(v) else "N/A" (lines 639-640): the digits of the
\* year, or the text N/A.
YearText(v) == IF v # NaN THEN [text |-> "digits", of |-> v]
               ELSE [text |-> "N/A", of |-> 0]

\* The outcome of the call: the exception it ends with, or the list.
load_non_room_data(file) ==
    IF file.k = "absent"
    THEN [raised |-> "FileNotFoundError", list |-> <<>>, missing |-> <<>>]
    ELSE IF file.k \in {"empty", "garbled"}
    THEN [raised |-> "ValueError", list |-> <<>>, missing |-> <<>>]
    ELSE IF MissingCols(file, non_room_required) # <<>>
    THEN [raised |-> "ValueError", list |-> <<>>,
          missing |-> MissingCols(file, non_room_required)]
    ELSE [raised |-> "none",
          list |-> [i \in 1..Len(file.rows) |->
                      [DeviceID |-> file.rows[i].DeviceID,
                       DeviceYear |-> YearText(file.rows[i].DeviceYear),
                       WarrantyYear |-> YearText(file.rows[i].WarrantyYear)]],
          missing |-> <<>>]

LoadNonRoomData(file) ==
    LET r == load_non_room_data(file) IN
    /\ qcall' = [op |-> "load_non_room_data", room |-> 0, type |-> "",
                 now |-> 0, file |-> file]
    /\ qres' = [raised |-> r.raised, entries |-> r.list, used |-> <<>>,
                stats |-> NoStats]
    /\ missing_cols' = Named("load_non_room_data", r.missing)
    /\ lres' = "none"
    /\ fresh' = FALSE
    /\ UNCHANGED <<engine, disk, startup_error, trainers, reader, nruns,
                   overlap, everSucceeded>>

\* Uploads lacking up to MaxMissing of the columns train_model requires.
SchemaUploads ==
    {[cols |-> AllCols \ gone, rows |-> UploadB.rows] :
        gone \in {g \in SUBSET AllCols : Cardinality(g) \in 1..MaxMissing}}

-----------------------------------------------------------------------------
(* The reader operations, as far as they read the engine's fields *)

ProbeRoom == 2000
ProbeType == "TV"

\* The guard each reader starts with (lines 132, 225-228, 295, 371, 434).
Unavailable(op) ==
    IF hotel_model = None \/ IsEmpty(loaded_training_df)
    THEN IF op = "get_dashboard_insights" THEN "message" ELSE "RuntimeError"
    ELSE "none"

\* Rows one operation predicts for, given the table it took.
RowsHandled(op, df) ==
    CASE op = "get_device_details" ->
            IF \E i \in 1..Len(df.rows) : df.rows[i].room = ProbeRoom
                                          /\ df.rows[i].type = ProbeType
            THEN 1 ELSE 0
      [] op = "predict_for_room" ->
            Cardinality({df.rows[i].type : i \in
                {j \in 1..Len(df.rows) : df.rows[j].room = ProbeRoom}})
      [] OTHER -> Len(df.rows)

ReaderBegin(op) ==
    /\ rpc = "idle"
    /\ rop' = op
    /\ rstart' = [model |-> hotel_model, df |-> loaded_training_df,
                  quiet |-> Quiescent(tpc)]
    /\ IF Unavailable(op) # "none"
       THEN /\ rres' = Unavailable(op) /\ rpc' = "done"
       ELSE /\ rres' = "none" /\ rpc' = "take"
    /\ rdf' = EmptyDF /\ ri' = 0 /\ rused' = <<>>
    /\ UNCHANGED <<engine, disk, startup_error, trainers, nruns, overlap,
                   everSucceeded,
                   query>>
    /\ Step

\* The table is read from the field once, where the row loop starts
\* (lines 136, 230, 320, 380, 446).
ReaderTake ==
    /\ rpc = "take"
    /\ rdf' = loaded_training_df
    /\ ri' = 1
    /\ IF RowsHandled(rop, loaded_training_df) = 0
       THEN rpc' = "done" /\ rres' = "ok"
       ELSE rpc' = "rows" /\ rres' = rres
    /\ UNCHANGED <<engine, disk, startup_error, trainers, rop, rused, rstart,
                   nruns, overlap, everSucceeded,
                   query>>
    /\ Step

\* One row: self.hotel_model.predict, the field read again (lines 177, 243,
\* 323, 383, 466).
ReaderRow ==
    /\ rpc = "rows"
    /\ IF hotel_model.state # "fitted"
       THEN /\ rres' = "NotFittedError" /\ rpc' = "done"
            /\ UNCHANGED <<ri, rused>>
       ELSE /\ rused' = Append(rused, hotel_model)
            /\ ri' = ri + 1
            /\ IF ri = RowsHandled(rop, rdf)
               THEN rpc' = "done" /\ rres' = "ok"
               ELSE rpc' = "rows" /\ rres' = rres
    /\ UNCHANGED <<engine, disk, startup_error, trainers, rop, rdf, rstart,
                   nruns, overlap, everSucceeded,
                   query>>
    /\ Step

ReaderReturn ==
    /\ rpc = "done"
    /\ rpc' = "idle" /\ rop' = "none" /\ rdf' = EmptyDF /\ ri' = 0
    /\ rused' = <<>> /\ rres' = "none" /\ rstart' = NoStart
    /\ UNCHANGED <<engine, disk, startup_error, trainers, nruns, overlap,
                   everSucceeded,
                   query>>
    /\ Step

-----------------------------------------------------------------------------
(* Dates: datetime.strptime over the six formats the readers try *)

NaT == -1                    \* pd.NaT / no date; a date is its proleptic ordinal

IsLeap(y) == (y % 4 = 0 /\ y % 100 # 0) \/ y % 400 = 0
DaysInMonth(y, m) ==
    CASE m = 2 -> IF IsLeap(y) THEN 29 ELSE 28
      [] m \in {4, 6, 9, 11} -> 30
      [] OTHER -> 31
DaysBeforeYear(y) ==
    (y - 1) * 365 + (y - 1) \div 4 - (y - 1) \div 100 + (y - 1) \div 400
RECURSIVE DaysBeforeMonth(_, _)
DaysBeforeMonth(y, m) ==
    IF m = 1 THEN 0 ELSE DaysBeforeMonth(y, m - 1) + DaysInMonth(y, m - 1)
toordinal(y, m, d) == DaysBeforeYear(y) + DaysBeforeMonth(y, m) + d
weekday(o) == (o + 6) % 7                        \* Monday is 0

\* As date_formats, with the day-first slash formats tried before the
\* month-first ones.
date_formats_day_first ==
    << [sep |-> "/", f |-> <<"d", "m", "Y">>],
       [sep |-> "/", f |-> <<"d", "m", "y">>],
       [sep |-> "-", f |-> <<"Y", "m", "d">>],
       [sep |-> "-", f |-> <<"d", "m", "Y">>],
       [sep |-> "/", f |-> <<"m", "d", "Y">>],
       [sep |-> "/", f |-> <<"m", "d", "y">>] >>

\* The formats in the order every reader lists them.
date_formats ==
    << [sep |-> "/", f |-> <<"m", "d", "Y">>],       \* %m/%d/%Y
       [sep |-> "/", f |-> <<"m", "d", "y">>],       \* %m/%d/%y
       [sep |-> "-", f |-> <<"Y", "m", "d">>],       \* %Y-%m-%d
       [sep |-> "-", f |-> <<"d", "m", "Y">>],       \* %d-%m-%Y
       [sep |-> "/", f |-> <<"d", "m", "Y">>],       \* %d/%m/%Y
       [sep |-> "/", f |-> <<"d", "m", "y">>] >>     \* %d/%m/%y

Pos(fmt, code) == CHOOSE i \in 1..3 : fmt.f[i] = code
YearCode(fmt) == IF "Y" \in Range(fmt.f) THEN "Y" ELSE "y"

\* datetime.strptime(str, fmt): the day parsed, or NaT where it raises
\* ValueError. %Y takes four digits, %y two (00-68 are 20xx, 69-99 are 19xx),
\* %m and %d one or two; the day must exist in the month.
strptime(cell, fmt) ==
    IF cell.k # "str" \/ cell.sep # fmt.sep THEN NaT
    ELSE LET yi == Pos(fmt, YearCode(fmt))
             mi == Pos(fmt, "m")
             di == Pos(fmt, "d")
             y == IF YearCode(fmt) = "Y" THEN cell.n[yi]
                  ELSE IF cell.n[yi] <= 68 THEN 2000 + cell.n[yi]
                  ELSE 1900 + cell.n[yi]
             m == cell.n[mi]
             d == cell.n[di]
         IN  IF /\ cell.w[yi] = (IF YearCode(fmt) = "Y" THEN 4 ELSE 2)
                /\ cell.w[mi] \in {1, 2} /\ m \in 1..12
                /\ cell.w[di] \in {1, 2} /\ d \in 1..31
                /\ y >= 1 /\ d <= DaysInMonth(y, m)
             THEN toordinal(y, m, d)
             ELSE NaT

\* The loop over the formats: the first one that parses wins.
RECURSIVE FirstFormat(_, _)
FirstFormat(cell, i) ==
    IF i > Len(date_formats) THEN NaT
    ELSE IF strptime(cell, date_formats[i]) # NaT
         THEN strptime(cell, date_formats[i])
         ELSE FirstFormat(cell, i + 1)

\* predict_for_room's parse_date (lines 145-155): a null cell is NaT at once.
parse_date(cell) == IF cell.k = "nan" THEN NaT ELSE FirstFormat(cell, 1)

-----------------------------------------------------------------------------
(* The reader operations computed on the engine's fields *)

Max(a, b) == IF a >= b THEN a ELSE b

\* As predicted_days_since, without the max(0, ...) of the next line.
predicted_days_since_raw(m, row) == m.out[FeatureVec(row)]

\* hotel_model.predict on the row's features, then max(0, ...)
\* (lines 177-178, 243-244, 323-324, 383-384, 466-467).
predicted_days_since(m, row) == Max(0, m.out[FeatureVec(row)])

\* int(warranty) >= current_year where the warranty cell is not null.
InWarranty(row, year) == row.warranty # NaN /\ row.warranty >= year
YearOf(now) == CHOOSE y \in 2020..2030 :
                   DaysBeforeYear(y) < now /\ now <= DaysBeforeYear(y + 1)

\* One element of a result list.
Entry(id, row, issue, flag, prev, days, next) ==
    [device_id |-> id, room |-> row.room, name |-> row.type, issue |-> issue,
     under_warranty |-> flag, warranty_year_till |-> row.warranty,
     previous |-> prev, predicted |-> days, next |-> next]

Answer(entries, used) ==
    [raised |-> "none", entries |-> entries, used |-> used, stats |-> NoStats]
Raised(what, used) ==
    [raised |-> what, entries |-> <<>>, used |-> used, stats |-> NoStats]

Indices(df) == [i \in 1..Len(df.rows) |-> i]
Place(p, e) == CHOOSE k \in 1..Len(p) : p[k] = e
AsSeq(p, n) == [k \in 1..n |-> p[k]]

\* sort_values(by='Parsed_Maintenance_Date', ascending=False), line 162: the
\* orders it can leave the rows S in. Later dates come first and NaT rows
\* last, in their original order; which of two rows with the same date comes
\* first is not fixed (the default sort kind is not stable).
sort_values(df, S) ==
    LET n == Cardinality(S)
        key(i) == parse_date(df.rows[i].date)
    IN  {AsSeq(p, n) : p \in
          {q \in [1..n -> S] :
              /\ \A a, b \in 1..n : a # b => q[a] # q[b]
              /\ \A a, b \in 1..n : a < b =>
                    \/ key(q[a]) # NaT /\ key(q[b]) # NaT
                       /\ key(q[a]) >= key(q[b])
                    \/ key(q[a]) # NaT /\ key(q[b]) = NaT
                    \/ key(q[a]) = NaT /\ key(q[b]) = NaT /\ q[a] < q[b]}}

\* As drop_duplicates, with keep='last'.
drop_duplicates_keep_last(df, p) ==
    SelectSeq(p, LAMBDA e :
        \A j \in (Place(p, e) + 1)..Len(p) :
            df.rows[p[j]].type # df.rows[e].type)

\* drop_duplicates(subset=['Appliance Type'], keep='first'), line 167.
drop_duplicates(df, p) ==
    SelectSeq(p, LAMBDA e :
        \A j \in 1..(Place(p, e) - 1) :
            df.rows[p[j]].type # df.rows[e].type)

NotReady(m, df) == m = None \/ IsEmpty(df)

\* get_model_status (lines 525-527).
get_model_status(m) == IF m # None THEN "Trained" ELSE "Not Trained"

\* predict_for_room (lines 122-212), for one outcome p of the sort.
predict_for_room(m, df, room_number, now, p) ==
    IF NotReady(m, df) THEN Raised("RuntimeError", <<>>)
    ELSE IF m.state # "fitted" /\ Len(p) > 0 THEN Raised("NotFittedError", <<>>)
    ELSE LET kept == drop_duplicates(df, p)
             one(i) ==
                LET row == df.rows[i]
                    days == predicted_days_since(m, row)
                    parsed == parse_date(row.date)
                IN  Entry(i, row,
                          IF row.status = NullStatus THEN "None" ELSE row.status,
                          IF InWarranty(row, YearOf(now)) THEN "yes" ELSE "no",
                          parsed, days,
                          IF parsed # NaT THEN parsed + days ELSE NaT)
         IN  Answer([k \in 1..Len(kept) |-> one(kept[k])],
                    [k \in 1..Len(kept) |-> predicted_days_since(m, df.rows[kept[k]])])

\* As get_device_details, matching on the room alone.
get_device_details_any_type(m, df, room_no, appliance_type, now) ==
    IF NotReady(m, df) THEN Raised("RuntimeError", <<>>)
    ELSE LET hits == {i \in 1..Len(df.rows) :
                        df.rows[i].room = room_no}
         IN  IF hits = {} THEN Answer(<<>>, <<>>)
             ELSE IF m.state # "fitted" THEN Raised("NotFittedError", <<>>)
             ELSE LET i == CHOOSE h \in hits : \A g \in hits : h <= g
                      row == df.rows[i]
                      days == predicted_days_since(m, row)
                      parsed == FirstFormat(row.date, 1)
                  IN  IF row.date.k = "nan" THEN Raised("TypeError", <<days>>)
                      ELSE Answer(
                        << Entry(i, row,
                             IF row.status = NullStatus THEN "None" ELSE row.status,
                             IF InWarranty(row, YearOf(now)) THEN "Yes" ELSE "No",
                             parsed, days,
                             IF parsed # NaT THEN parsed + days ELSE NaT) >>,
                        <<days>>)

\* get_device_details (lines 214-284): the first matching row; strptime is
\* handed the cell itself, and a null cell is a TypeError nobody catches.
get_device_details(m, df, room_no, appliance_type, now) ==
    IF NotReady(m, df) THEN Raised("RuntimeError", <<>>)
    ELSE LET hits == {i \in 1..Len(df.rows) :
                        df.rows[i].room = room_no
                        /\ df.rows[i].type = appliance_type}
         IN  IF hits = {} THEN Answer(<<>>, <<>>)
             ELSE IF m.state # "fitted" THEN Raised("NotFittedError", <<>>)
             ELSE LET i == CHOOSE h \in hits : \A g \in hits : h <= g
                      row == df.rows[i]
                      days == predicted_days_since(m, row)
                      parsed == FirstFormat(row.date, 1)
                  IN  IF row.date.k = "nan" THEN Raised("TypeError", <<days>>)
                      ELSE Answer(
                        << Entry(i, row,
                             IF row.status = NullStatus THEN "None" ELSE row.status,
                             IF InWarranty(row, YearOf(now)) THEN "Yes" ELSE "No",
                             parsed, days,
                             IF parsed # NaT THEN parsed + days ELSE NaT) >>,
                        <<days>>)

\* As ContainsWorking, matching the whole text in its own case.
ContainsWorkingExactly(status) == status = "Working"

\* 'Working' found in the Status text, whatever its case (line 309).
ContainsWorking(status) ==
    status \in {"Working", "working", "WORKING", "Not Working", "not working"}

\* The rows a loop gets through: all of them, or those up to the first one
\* whose date cell makes strptime raise TypeError.
FirstNullDate(df) ==
    IF \E i \in 1..Len(df.rows) : df.rows[i].date.k = "nan"
    THEN CHOOSE i \in 1..Len(df.rows) :
            /\ df.rows[i].date.k = "nan"
            /\ \A j \in 1..(i - 1) : df.rows[j].date.k # "nan"
    ELSE 0

\* As unique_devices, counting every row (no drop_duplicates).
unique_devices_every_row(df) == Indices(df)

\* df[['Room Number', 'Appliance Type']].drop_duplicates() (line 303): the
\* rows no earlier row shares both cells with.
unique_devices(df) ==
    SelectSeq(Indices(df), LAMBDA i :
        \A j \in 1..(i - 1) :
            <<df.rows[j].room, df.rows[j].type>>
                # <<df.rows[i].room, df.rows[i].type>>)

\* get_dashboard_insights (lines 286-362).
get_dashboard_insights(m, df, file, now) ==
    IF NotReady(m, df)
    THEN [raised |-> "message", entries |-> <<>>, used |-> <<>>,
          stats |-> NoStats]
    ELSE IF m.state # "fitted" THEN Raised("NotFittedError", <<>>)
    ELSE LET n == Len(df.rows)
             total_devices == Len(unique_devices(df))
             running_devices ==
                IF "Status" \in df.cols
                THEN Cardinality({i \in 1..n : ContainsWorking(df.rows[i].status)})
                ELSE 0
             down_devices == n - running_devices
             next(i) ==
                LET parsed == FirstFormat(df.rows[i].date, 1)
                IN  IF parsed = NaT THEN NaT
                    ELSE parsed + predicted_days_since(m, df.rows[i])
             due == SelectSeq(Indices(df),
                              LAMBDA i : next(i) # NaT /\ next(i) <= now)
             used == [i \in 1..n |-> predicted_days_since(m, df.rows[i])]
         IN  IF file = Unset THEN Raised("AttributeError", used)
             ELSE [raised |-> "none",
                   entries |-> [k \in 1..Len(due) |->
                       Entry(due[k], df.rows[due[k]], "", "", NaT,
                             predicted_days_since(m, df.rows[due[k]]),
                             next(due[k]))],
                   used |-> used,
                   stats |-> [total_devices |-> total_devices,
                              running |-> running_devices,
                              down |-> down_devices,
                              due_maintenance |-> Len(due),
                              under_maintenance |->
                                  Max(0, down_devices - Len(due)),
                              loaded_data_file |-> file]]

\* get_upcoming_maintenance_devices (lines 364-425): strptime is handed the
\* cell itself.
get_upcoming_maintenance_devices(m, df, now) ==
    IF NotReady(m, df) THEN Raised("RuntimeError", <<>>)
    ELSE IF m.state # "fitted" THEN Raised("NotFittedError", <<>>)
    ELSE LET next(i) ==
                LET parsed == FirstFormat(df.rows[i].date, 1)
                IN  IF parsed = NaT THEN NaT
                    ELSE parsed + predicted_days_since(m, df.rows[i])
             listed == SelectSeq(Indices(df), LAMBDA i :
                          next(i) # NaT /\ now < next(i) /\ next(i) <= now + 182)
             one(i) ==
                LET row == df.rows[i]
                IN  Entry(i, row,
                          IF row.status = NullStatus THEN "None" ELSE row.status,
                          IF InWarranty(row, YearOf(now)) THEN "yes" ELSE "no",
                          FirstFormat(row.date, 1),
                          predicted_days_since(m, row), next(i))
         IN  IF FirstNullDate(df) # 0
             THEN Raised("TypeError",
                         [i \in 1..FirstNullDate(df) |->
                             predicted_days_since(m, df.rows[i])])
             ELSE Answer([k \in 1..Len(listed) |-> one(listed[k])],
                         [i \in 1..Len(df.rows) |->
                             predicted_days_since(m, df.rows[i])])

\* get_current_week_maintenance_devices (lines 427-523).
get_current_week_maintenance_devices(m, df, now) ==
    IF NotReady(m, df) THEN Raised("RuntimeError", <<>>)
    ELSE IF m.state # "fitted" THEN Raised("NotFittedError", <<>>)
    ELSE LET start_of_current_week == now - weekday(now)
             end_of_current_week == start_of_current_week + 6
             next(i) ==
                LET parsed == FirstFormat(df.rows[i].date, 1)
                IN  IF parsed = NaT THEN NaT
                    ELSE parsed + predicted_days_since(m, df.rows[i])
             listed == SelectSeq(Indices(df), LAMBDA i :
                          /\ next(i) # NaT
                          /\ start_of_current_week <= next(i)
                          /\ next(i) <= end_of_current_week)
             one(i) ==
                LET row == df.rows[i]
                IN  Entry(i, row, row.status,
                          IF InWarranty(row, YearOf(now)) THEN "yes" ELSE "no",
                          FirstFormat(row.date, 1),
                          predicted_days_since(m, row), next(i))
         IN  Answer([k \in 1..Len(listed) |-> one(listed[k])],
                    [i \in 1..Len(df.rows) |->
                        predicted_days_since(m, df.rows[i])])

\* The calls a client makes and the days it makes them on. A query changes
\* nothing on the engine, so one query per behaviour shows all of them.
QueryRooms == {2000, 2001}
QueryTypes == {"TV", "AC"}
Clock == {toordinal(2024, 3, 4), toordinal(2024, 3, 10)}

Call(op, room, type, now) == [op |-> op, room |-> room, type |-> type, now |-> now]

PredictForRoom(room, now) ==
    /\ qcall = NoCall
    /\ \E p \in sort_values(loaded_training_df,
                 {i \in 1..Len(loaded_training_df.rows) :
                     loaded_training_df.rows[i].room = room}) :
          qres' = predict_for_room(hotel_model, loaded_training_df, room, now, p)
    /\ qcall' = Call("predict_for_room", room, "", now)
    /\ UNCHANGED <<engine, disk, startup_error, trainers, reader, lres, missing_cols,
                   nruns,
                   overlap, fresh, everSucceeded>>

GetDeviceDetails(room, type, now) ==
    /\ qcall = NoCall
    /\ qres' = get_device_details(hotel_model, loaded_training_df, room, type, now)
    /\ qcall' = Call("get_device_details", room, type, now)
    /\ UNCHANGED <<engine, disk, startup_error, trainers, reader, lres, missing_cols,
                   nruns,
                   overlap, fresh, everSucceeded>>

GetDashboardInsights(now) ==
    /\ qcall = NoCall
    /\ qres' = get_dashboard_insights(hotel_model, loaded_training_df,
                                      loaded_file_path, now)
    /\ qcall' = Call("get_dashboard_insights", 0, "", now)
    /\ UNCHANGED <<engine, disk, startup_error, trainers, reader, lres, missing_cols,
                   nruns,
                   overlap, fresh, everSucceeded>>

GetUpcomingMaintenanceDevices(now) ==
    /\ qcall = NoCall
    /\ qres' = get_upcoming_maintenance_devices(hotel_model, loaded_training_df, now)
    /\ qcall' = Call("get_upcoming_maintenance_devices", 0, "", now)
    /\ UNCHANGED <<engine, disk, startup_error, trainers, reader, lres, missing_cols,
                   nruns,
                   overlap, fresh, everSucceeded>>

GetCurrentWeekMaintenanceDevices(now) ==
    /\ qcall = NoCall
    /\ qres' = get_current_week_maintenance_devices(hotel_model,
                                                    loaded_training_df, now)
    /\ qcall' = Call("get_current_week_maintenance_devices", 0, "", now)
    /\ UNCHANGED <<engine, disk, startup_error, trainers, reader, lres, missing_cols,
                   nruns,
                   overlap, fresh, everSucceeded>>

\* The engine the queries are put to: a model fitted by an earlier train_model
\* (targets of either sign) and a table loaded since, of up to MaxRows rows.
MaxRows == 2
TrainSigned == [cols |-> AllCols, rows |->
    << Row(2000, "TV", D1, 500, 2, 2020, -5, "Working", 2025),
       Row(2000, "AC", D2, 100, 2, 2020, 7, "Working", 2025) >>]
QueryTrainTables == {FillStatus(UploadA), TrainSigned}
QueryDevices == { <<2000, "TV", "Working", 2025>>,
                  <<2000, "AC", NullStatus, NaN>>,
                  <<2001, "TV", "not working", 2020>> }
QueryDates == {D1, D2, TextDate, NullDate}
QueryRows == {Row(dev[1], dev[2], date, usage, 2, 2020, 0, dev[3], dev[4]) :
                 dev \in QueryDevices, date \in QueryDates, usage \in UsageVals}
QueryTables == UNION {{[cols |-> AllCols, rows |-> AsSeq(r, n)] :
                          r \in [1..n -> QueryRows]} : n \in 1..MaxRows}

\* One-row tables over the date strings a CSV can hold: two separators and,
\* per field, a number with the digits it is written in.
DateFields == { <<2, 1>>, <<3, 2>>, <<4, 2>>, <<13, 2>>, <<31, 2>>, <<24, 2>>,
                <<99, 2>>, <<2024, 4>> }
DateCells == {DateStr(sep, <<a[1], b[1], c[1]>>, <<a[2], b[2], c[2]>>) :
                 sep \in {"/", "-"}, a \in DateFields, b \in DateFields,
                 c \in DateFields}
             \cup {TextDate, NullDate}
DateTables == {[cols |-> AllCols, rows |->
                  << Row(2000, "TV", cell, 500, 2, 2020, 0, "Working", 2025) >>] :
                  cell \in DateCells}

InitOver(trained, tables) ==
    \E T \in trained, df \in tables :
        /\ disk_model = ModelFile(0, Fit(T)) /\ disk_data = DataFile(0, T)
        /\ hotel_model = Fit(T)
        /\ loaded_training_df = df
        /\ model_metrics = [r2_score |-> Score(Fit(T), T), mae |-> Score(Fit(T), T),
                            rmse |-> Score(Fit(T), T)]
        /\ loaded_file_path = "FairField.csv"
        /\ startup_error = FALSE
        /\ tpc = [t \in Threads |-> "idle"]
        /\ tdf = [t \in Threads |-> EmptyDF]
        /\ tpre = [t \in Threads |-> NoPre]
        /\ tscore = [t \in Threads |-> NoMetric]
        /\ trun = [t \in Threads |-> 0]
        /\ rpc = "idle" /\ rop = "none" /\ rdf = EmptyDF /\ ri = 0
        /\ rused = <<>> /\ rres = "none" /\ rstart = NoStart
        /\ lres = "ok" /\ missing_cols = NoMissing /\ overlap = FALSE
        /\ qcall = NoCall /\ qres = NoAnswer
        /\ nruns = 0
        /\ fresh = FALSE
        /\ everSucceeded = TRUE

InitQuery == InitOver(QueryTrainTables, QueryTables)
InitDates == InitOver({TrainSigned}, DateTables)

-----------------------------------------------------------------------------
(* The process stops and a fresh one is constructed *)

\* A stop while a write is under way can leave that file truncated.
Restart ==
    /\ disk_model' \in {disk_model}
            \cup {CorruptModel : t \in {u \in Threads : tpc[u] = "L110"}}
    /\ disk_data' \in {disk_data}
            \cup {CorruptData : t \in {u \in Threads : tpc[u] = "L112"}}
    /\ Boot(disk_model', disk_data')
    /\ UNCHANGED nruns

-----------------------------------------------------------------------------
Alive == ~startup_error

Train(t) ==
    \/ \E df \in Uploads : TrainRejected(t, df)
    \/ \E df \in Uploads : TrainAccepted(t, df)
    \/ TrainInstall(t)
    \/ TrainFit(t)
    \/ TrainScore(t)
    \/ TrainMetrics(t)
    \/ TrainDumpModel(t)
    \/ TrainSetData(t)
    \/ TrainDumpData(t)
    \/ TrainReturn(t)

Read ==
    \/ \E op \in ReaderOps : ReaderBegin(op)
    \/ ReaderTake
    \/ ReaderRow
    \/ ReaderReturn

\* One train_model thread, dataset selection and restarts.
Next ==
    \/ Alive /\ Train("t1")
    \/ \E n \in RequestedNames : Alive /\ LoadHotelData(n)
    \/ Restart

\* One train_model thread and one reader operation, interleaved statement by
\* statement, and restarts.
NextReaders ==
    \/ Alive /\ Train("t1")
    \/ Alive /\ Read
    \/ Restart

\* Two train_model calls overlapping, and restarts.
NextOverlap ==
    \/ \E t \in Threads : Alive /\ Train(t)
    \/ Restart

\* A writer and restarts over whatever the two paths hold.
NextStartup ==
    \/ Alive /\ Train("t1")
    \/ Restart

\* The reader operations, each computed whole on the loaded engine.
NextQuery ==
    \/ \E room \in QueryRooms, now \in Clock : PredictForRoom(room, now)
    \/ \E room \in QueryRooms, type \in QueryTypes, now \in Clock :
          GetDeviceDetails(room, type, now)
    \/ \E now \in Clock : GetDashboardInsights(now)
    \/ \E now \in Clock : GetUpcomingMaintenanceDevices(now)
    \/ \E now \in Clock : GetCurrentWeekMaintenanceDevices(now)

\* Calls whose input lacks columns: uploads to train_model and the file
\* load_non_room_data reads.
NextSchema ==
    \/ \E df \in SchemaUploads : Alive /\ TrainRejected("t1", df)
    \/ Alive /\ TrainReturn("t1")
    \/ \E file \in NonRoomFiles : Alive /\ LoadNonRoomData(file)

\* A dashboard request at any point between training runs, dataset selections
\* and restarts.
NextDashboard ==
    \/ Alive /\ Train("t1")
    \/ \E n \in RequestedNames : Alive /\ LoadHotelData(n)
    \/ Restart
    \/ \E now \in Clock : Alive /\ GetDashboardInsights(now)

Spec == Init /\ [][Next]_vars
SpecDashboard == Init /\ [][NextDashboard]_vars
SpecSchema == Init /\ [][NextSchema]_vars
SpecReaders == Init /\ [][NextReaders]_vars
SpecOverlap == Init /\ [][NextOverlap]_vars
SpecAnyDisk == InitAnyDisk /\ [][NextStartup]_vars
SpecQuery == InitQuery /\ [][NextQuery]_vars
SpecDates == InitDates /\ [][NextQuery]_vars

-----------------------------------------------------------------------------
(* Claims about the lifecycle *)

\* C1: whenever no train_model is in flight (it returned, it failed, or the
\* process was restarted), the two durable artifacts are both absent or both
\* files written by the same training run.
C1_ArtifactsPaired ==
    Quiescent(tpc) =>
        \/ disk_model.k = NoFile /\ disk_data.k = NoFile
        \/ /\ disk_model.k = "file" /\ disk_data.k = "file"
           /\ disk_model.by = disk_data.by

\* C2: a reader operation that began while no train_model was in flight and
\* completed predicts every row with one model, and that model with the table
\* it read is either the pair it found at its start or the pair a train_model
\* on that table installs.
C2_ReaderSeesOneSnapshot ==
    (rpc = "done" /\ rres = "ok" /\ rstart.quiet) =>
        /\ \A i, j \in 1..Len(rused) : rused[i] = rused[j]
        /\ \A i \in 1..Len(rused) :
              \/ rused[i] = rstart.model /\ rdf = rstart.df
              \/ rused[i] = Fit(rdf)

\* C3: a reader operation that found the engine Ready (a fitted model and a
\* non-empty dataset) never ends on the not-fitted error of a regressor that a
\* train_model installed and has not fitted yet.
C3_ReaderNeverSeesUnfitted ==
    (rpc = "done" /\ rstart.model.state = "fitted" /\ ~IsEmpty(rstart.df)) =>
        rres # "NotFittedError"

\* C4: a train_model call refused by column validation leaves the in-memory
\* model, dataset and metrics and both durable artifacts as they were.
C4_RejectedTrainChangesNothing ==
    [][(\E t \in Threads : tpc[t] = "idle" /\ tpc'[t] = "ValueError") =>
           UNCHANGED <<hotel_model, loaded_training_df, model_metrics,
                       disk_model, disk_data>>]_vars
C4_Witness ==
    /\ tpc["t1"] = "ValueError"
    /\ hotel_model.state = "fitted" /\ ~IsEmpty(loaded_training_df)
    /\ disk_model.k = "file" /\ disk_data.k = "file"

\* C5: while no train_model has returned and no reload has loaded anything, a
\* reader operation other than the dashboard, begun with no train_model in
\* flight, ends on the RuntimeError and nothing else.
C5_UnavailableBeforeSuccess ==
    (rpc = "done" /\ ~everSucceeded /\ rstart.quiet
        /\ rop # "get_dashboard_insights") => rres = "RuntimeError"

\* C6: construction completes for every content of the two paths, and an
\* artifact that is absent or unreadable leaves its in-memory part at None or
\* at the empty table.
C6_StartupNeverFails ==
    fresh =>
        /\ ~startup_error
        /\ disk_model.k \in {NoFile, Garbled} => hotel_model = None
        /\ disk_data.k \in {NoFile, Garbled} => loaded_training_df = EmptyDF
C6_Witness ==
    /\ fresh /\ disk_model.k = Garbled /\ disk_data.k = "file"
    /\ hotel_model = None /\ ~IsEmpty(loaded_training_df)

MetricsAllSet ==
    model_metrics.r2_score.set /\ model_metrics.mae.set /\ model_metrics.rmse.set
MetricsAllUnset ==
    ~model_metrics.r2_score.set /\ ~model_metrics.mae.set
    /\ ~model_metrics.rmse.set

\* C7: after startup the three metrics are all set exactly when a model and a
\* non-empty dataset holding the feature and target columns are loaded, and
\* otherwise all three are unset; construction does not fail either way.
C7_ReloadMetrics ==
    fresh =>
        /\ MetricsAllSet <=>
              /\ hotel_model # None /\ ~IsEmpty(loaded_training_df)
              /\ Range(metric_required) \subseteq loaded_training_df.cols
        /\ MetricsAllSet \/ MetricsAllUnset
        /\ ~startup_error
C7_Witness ==
    /\ fresh /\ MetricsAllSet
    /\ disk_model.k = "file" /\ disk_data.k = "file"

\* C8: a restart right after a train_model that returned, with no other writer
\* having run during it, gives an engine whose model is the one the train
\* fitted and whose dataset is the table the train installed.
C8_PersistReloadRoundTrip ==
    [][\A t \in Threads :
          (fresh' /\ tpc[t] = "ok" /\ ~overlap) =>
              /\ hotel_model' = hotel_model
              /\ hotel_model'.state = "fitted"
              /\ loaded_training_df' = tdf[t]
              /\ ~startup_error']_vars
C8_Witness ==
    /\ fresh /\ nruns > 0
    /\ disk_model.by = nruns /\ disk_data.by = nruns
    /\ hotel_model = disk_model.val /\ hotel_model.state = "fitted"
    /\ loaded_training_df = disk_data.val /\ ~IsEmpty(loaded_training_df)

-----------------------------------------------------------------------------
(* Claims about the reader operations *)

\* C9: predict_for_room answers with exactly one entry for each appliance type
\* the room has rows of; the entry is made from a row of that type in the room
\* and, where any such row has a date that parses, from one whose parsed date
\* is the latest of them, never from a row whose date does not parse.
C9_OneEntryPerType ==
    (qcall.op = "predict_for_room" /\ qres.raised = "none") =>
        LET df == loaded_training_df
            inroom == {i \in 1..Len(df.rows) : df.rows[i].room = qcall.room}
            types == {df.rows[i].type : i \in inroom}
            E == qres.entries
        IN  /\ Len(E) = Cardinality(types)
            /\ \A ty \in types : \E k \in 1..Len(E) :
                  LET same == {i \in inroom : df.rows[i].type = ty}
                      dated == {i \in same : parse_date(df.rows[i].date) # NaT}
                  IN  /\ E[k].name = ty
                      /\ E[k].device_id \in same
                      /\ dated # {} =>
                            /\ E[k].device_id \in dated
                            /\ \A j \in dated :
                                  parse_date(df.rows[E[k].device_id].date)
                                      >= parse_date(df.rows[j].date)
C9_Witness ==
    /\ qcall.op = "predict_for_room" /\ qres.raised = "none"
    /\ Len(loaded_training_df.rows) = 2
    /\ loaded_training_df.rows[1].room = qcall.room
    /\ loaded_training_df.rows[2].room = qcall.room
    /\ loaded_training_df.rows[1].type = loaded_training_df.rows[2].type
    /\ loaded_training_df.rows[1].date = D1
    /\ loaded_training_df.rows[2].date = D2
    /\ Len(qres.entries) = 1 /\ qres.entries[1].device_id = 2

\* C10: whatever the model returns for a row, the predicted days a reader
\* operation goes on with are zero or more: in every entry it lists and in
\* every next-maintenance date it computes, which is never before the row's
\* last maintenance date.
C10_PredictedDaysNonNegative ==
    qcall.op # "none" =>
        /\ \A k \in 1..Len(qres.used) : qres.used[k] >= 0
        /\ \A k \in 1..Len(qres.entries) :
              /\ qres.entries[k].predicted >= 0
              /\ qres.entries[k].next # NaT =>
                    qres.entries[k].next >=
                      parse_date(loaded_training_df.rows[
                                     qres.entries[k].device_id].date)
C10_Witness ==
    /\ qcall.op = "get_dashboard_insights" /\ qres.raised = "none"
    /\ \E k \in 1..Len(qres.entries) :
          /\ qres.entries[k].predicted = 0
          /\ hotel_model.out[FeatureVec(loaded_training_df.rows[
                                 qres.entries[k].device_id])] < 0

\* C11: the dashboard's total_devices is the number of distinct (room,
\* appliance type) pairs among the loaded rows, and it is the same for the
\* table with one more row that repeats a pair already there.
C11_TotalDevicesDistinctPairs ==
    (qcall.op = "get_dashboard_insights" /\ qres.raised = "none") =>
        LET df == loaded_training_df
            pairs == {<<df.rows[i].room, df.rows[i].type>> :
                         i \in 1..Len(df.rows)}
        IN  /\ qres.stats.total_devices = Cardinality(pairs)
            /\ \A r \in QueryRows :
                  <<r.room, r.type>> \in pairs =>
                      Len(unique_devices([df EXCEPT !.rows = Append(df.rows, r)]))
                          = qres.stats.total_devices
C11_Witness ==
    /\ qcall.op = "get_dashboard_insights" /\ qres.raised = "none"
    /\ Len(loaded_training_df.rows) = 2
    /\ loaded_training_df.rows[1].room = loaded_training_df.rows[2].room
    /\ loaded_training_df.rows[1].type = loaded_training_df.rows[2].type
    /\ qres.stats.total_devices = 1

\* C12: on the same model, table and day, no row that the dashboard lists as
\* due (next-maintenance date on or before today) is returned by
\* get_upcoming_maintenance_devices or get_current_week_maintenance_devices.
C12_DueNeverUpcoming ==
    (qcall.op \in {"get_upcoming_maintenance_devices",
                   "get_current_week_maintenance_devices"}
        /\ qres.raised = "none") =>
        LET due == get_dashboard_insights(hotel_model, loaded_training_df,
                                          loaded_file_path, qcall.now).entries
        IN  \A k \in 1..Len(qres.entries), j \in 1..Len(due) :
                due[j].device_id # qres.entries[k].device_id

\* The order the formats are claimed to be tried in.
C13_Order ==
    << [sep |-> "/", f |-> <<"m", "d", "Y">>],
       [sep |-> "/", f |-> <<"m", "d", "y">>],
       [sep |-> "-", f |-> <<"Y", "m", "d">>],
       [sep |-> "-", f |-> <<"d", "m", "Y">>],
       [sep |-> "/", f |-> <<"d", "m", "Y">>],
       [sep |-> "/", f |-> <<"d", "m", "y">>] >>
C13_First(cell) ==
    LET ok == {i \in 1..6 : strptime(cell, C13_Order[i]) # NaT}
    IN  IF ok = {} THEN NaT
        ELSE strptime(cell, C13_Order[CHOOSE i \in ok : \A j \in ok : i <= j])

\* C13: in every operation the date a row is given is the parse by the first
\* of month/day/4-digit-year, month/day/2-digit-year, year-month-day,
\* day-month-4-digit-year, day/month/4-digit-year, day/month/2-digit-year
\* that accepts the string: the previous-maintenance date of every entry is
\* that day, and every next-maintenance date is that day plus the predicted
\* days.
C13_FormatOrder ==
    qcall.op # "none" =>
        \A k \in 1..Len(qres.entries) :
            LET e == qres.entries[k]
                cell == loaded_training_df.rows[e.device_id].date
            IN  /\ qcall.op # "get_dashboard_insights" =>
                      e.previous = C13_First(cell)
                /\ e.next # NaT => e.next = C13_First(cell) + e.predicted
                /\ e.next = NaT => C13_First(cell) = NaT
C13_Witness ==
    /\ qcall.op = "get_device_details" /\ qres.raised = "none"
    /\ Len(qres.entries) = 1
    /\ loaded_training_df.rows[qres.entries[1].device_id].date = D2
    /\ qres.entries[1].previous = toordinal(2024, 3, 4)
    /\ qres.entries[1].previous # toordinal(2024, 4, 3)

\* C14: no reader operation ends on an exception raised by parsing a
\* last-maintenance cell, whatever the cell holds, a null cell included.
C14_DateParseNeverRaises ==
    qcall.op # "none" => qres.raised # "TypeError"

-----------------------------------------------------------------------------
(* Claims about ingestion *)

\* The order the full schema and the non-room schema are declared in.
C15_FullSchema ==
    <<"Room Number", "Appliance Type", "Last Maintenance Date", "Usage Hours",
      "Days Since Maintenance", "Average_Daily_Usage", "Device_Year", "Status",
      "Warranty Year">>
C15_NonRoomSchema ==
    <<"DeviceID", "DeviceType", "Location", "DeviceYear", "WarrantyYear",
      "TotalUsageHours", "LastMaintenanceDate", "NextScheduledMaintenanceDates">>

\* C15: the message of a train_model refused for absent columns, and of a
\* load_non_room_data refused for absent columns, lists exactly the required
\* columns the input lacks, in the order the schema declares them.
C15_SchemaFailureNamesMissing ==
    /\ missing_cols.by = "train_model" =>
          /\ tpc["t1"] = "ValueError"
          /\ missing_cols.cols =
                SelectSeq(C15_FullSchema, LAMBDA c : c \notin tdf["t1"].cols)
    /\ missing_cols.by = "load_non_room_data" =>
          /\ qres.raised = "ValueError"
          /\ missing_cols.cols =
                SelectSeq(C15_NonRoomSchema, LAMBDA c : c \notin qcall.file.cols)

\* C16: whichever ingestion operation refuses an input for absent columns,
\* the caller receives a ValueError naming them: load_hotel_data on a
\* registered file as much as train_model and load_non_room_data.
C16_SchemaFailureTyped ==
    /\ missing_cols.by = "train_model" => \E t \in Threads : tpc[t] = "ValueError"
    /\ missing_cols.by = "load_non_room_data" => qres.raised = "ValueError"
    /\ missing_cols.by = "load_hotel_data" => lres = "ValueError"

\* C17: a load_hotel_data that succeeds leaves the in-memory model, the
\* metrics and both durable artifacts as they were and moves no training
\* run; it replaces the loaded table by the chosen file's table and the
\* loaded-file label by that file's name.
C17_LoadHotelDataOnlySelects ==
    [][lres' = "ok" =>
          /\ UNCHANGED <<hotel_model, model_metrics, disk_model, disk_data>>
          /\ UNCHANGED <<tpc, tscore, nruns>>
          /\ loaded_file_path' \in {HOTEL_CSV_FILES(h) : h \in HotelNames}
          /\ loaded_training_df' = ReadCsv(loaded_file_path')]_vars
C17_Witness ==
    /\ lres = "ok" /\ loaded_file_path = "FairField.csv"
    /\ loaded_training_df = HotelFair
    /\ hotel_model.state = "fitted" /\ model_metrics # NoMetrics
    /\ disk_data.k = "file" /\ disk_data.val # loaded_training_df

-----------------------------------------------------------------------------
(* Claims about the warranty flag, the dashboard counts and the half-year view *)

\* C18: every entry returned by predict_for_room, get_device_details,
\* get_upcoming_maintenance_devices and get_current_week_maintenance_devices
\* carries the flag "yes" when its warranty year is present and not before
\* the current calendar year, and the flag "no" otherwise.
C18_WarrantyFlag ==
    (/\ qcall.op \in {"predict_for_room", "get_device_details",
                      "get_upcoming_maintenance_devices",
                      "get_current_week_maintenance_devices"}
     /\ qres.raised = "none") =>
        \A k \in 1..Len(qres.entries) :
            LET e == qres.entries[k] IN
            e.under_warranty =
                IF e.warranty_year_till # NaN
                   /\ e.warranty_year_till >= YearOf(qcall.now)
                THEN "yes" ELSE "no"

\* Status texts in which "working" occurs when case is ignored.
C19_MentionsWorking(status) ==
    status \in {"Working", "working", "WORKING", "Not Working", "not working"}
C19_Next(row) ==
    IF parse_date(row.date) = NaT THEN NaT
    ELSE parse_date(row.date) + predicted_days_since(hotel_model, row)

\* C19: in a dashboard answer, running counts the rows whose status mentions
\* "working" in any case, down is the number of rows less running,
\* due_maintenance counts the rows whose next-maintenance date is today or
\* earlier and is the length of the pending list, and under_maintenance is
\* down less due_maintenance, or 0 where that is negative; so running and
\* down add up to the number of rows and under_maintenance lies in 0..down.
C19_DashboardCounts ==
    (qcall.op = "get_dashboard_insights" /\ qres.raised = "none") =>
        LET rows == loaded_training_df.rows
            n == Len(rows)
            st == qres.stats
        IN  /\ st.running =
                  Cardinality({i \in 1..n : C19_MentionsWorking(rows[i].status)})
            /\ st.down = n - st.running
            /\ st.due_maintenance =
                  Cardinality({i \in 1..n : /\ C19_Next(rows[i]) # NaT
                                            /\ C19_Next(rows[i]) <= qcall.now})
            /\ st.due_maintenance = Len(qres.entries)
            /\ st.under_maintenance =
                  IF st.down - st.due_maintenance > 0
                  THEN st.down - st.due_maintenance ELSE 0
            /\ st.running + st.down = n
            /\ 0 <= st.under_maintenance /\ st.under_maintenance <= st.down
C19_Witness ==
    /\ qcall.op = "get_dashboard_insights" /\ qres.raised = "none"
    /\ Len(loaded_training_df.rows) = 2
    /\ \E i \in 1..2 : loaded_training_df.rows[i].status = "not working"
    /\ qres.stats.running = 1 /\ qres.stats.down = 1
    /\ qres.stats.due_maintenance = 2 /\ qres.stats.under_maintenance = 0

\* The rows whose next-maintenance date exists and lies after the day of the
\* call and at most 182 days after it.
C20_Qualifying ==
    {i \in 1..Len(loaded_training_df.rows) :
        LET d == C19_Next(loaded_training_df.rows[i])
        IN  d # NaT /\ qcall.now < d /\ d <= qcall.now + 182}

\* C20: get_upcoming_maintenance_devices, called on an engine holding a
\* fitted model and a table, returns each row whose date parses and whose
\* next-maintenance date d satisfies today < d <= today + 182 exactly once,
\* and returns no other row.
C20_UpcomingWindow ==
    (/\ qcall.op = "get_upcoming_maintenance_devices"
     /\ qres.raised \notin {"RuntimeError", "NotFittedError"}) =>
        /\ {qres.entries[k].device_id : k \in 1..Len(qres.entries)}
              = C20_Qualifying
        /\ Len(qres.entries) = Cardinality(C20_Qualifying)

-----------------------------------------------------------------------------
(* Claims about the weekly view, bad rows and lookups *)

\* C21: every row get_current_week_maintenance_devices returns has its
\* next-maintenance date after the day of the call and on or before the
\* Sunday of the Monday-to-Sunday week that day lies in.
C21_WeeklyStrictlyAfterToday ==
    (qcall.op = "get_current_week_maintenance_devices"
        /\ qres.raised = "none") =>
        \A k \in 1..Len(qres.entries) :
            /\ qcall.now < qres.entries[k].next
            /\ qres.entries[k].next <= qcall.now - ((qcall.now + 6) % 7) + 6

\* A row an aggregation cannot use: its date cell is empty or no date, or one
\* of its three feature cells is empty or not a number.
C22_BadRow(row) ==
    \/ parse_date(row.date) = NaT
    \/ ~IsNum(row.usage) \/ ~IsNum(row.daily) \/ ~IsNum(row.year)

\* C22: get_dashboard_insights, get_upcoming_maintenance_devices and
\* get_current_week_maintenance_devices, called on an engine holding a fitted
\* model and a table, return their result whatever rows the table holds, and
\* no row with an unusable date or feature cell is in the returned list.
C22_BadRowsSkipped ==
    (/\ qcall.op \in {"get_dashboard_insights",
                      "get_upcoming_maintenance_devices",
                      "get_current_week_maintenance_devices"}
     /\ qres.raised \notin {"RuntimeError", "NotFittedError", "message"}) =>
        /\ qres.raised = "none"
        /\ \A k \in 1..Len(qres.entries) :
              ~C22_BadRow(loaded_training_df.rows[qres.entries[k].device_id])

\* The rows of the loaded table in the room, and of the type, that were asked for.
C23_Hits ==
    {i \in 1..Len(loaded_training_df.rows) :
        /\ loaded_training_df.rows[i].room = qcall.room
        /\ (qcall.op = "get_device_details" =>
               loaded_training_df.rows[i].type = qcall.type)}

\* C23: on an engine holding a model and a table, predict_for_room for a room
\* without rows returns the empty list and get_device_details for a room and
\* type without a row returns the empty result, neither raising; where rows
\* match, get_device_details reports the first of them in table order.
C23_NoMatchIsEmptySuccess ==
    (/\ qcall.op \in {"predict_for_room", "get_device_details"}
     /\ hotel_model # None /\ ~IsEmpty(loaded_training_df)) =>
        /\ C23_Hits = {} => qres.raised = "none" /\ qres.entries = <<>>
        /\ (qcall.op = "get_device_details" /\ C23_Hits # {}
              /\ qres.raised = "none") =>
                /\ Len(qres.entries) = 1
                /\ qres.entries[1].device_id \in C23_Hits
                /\ \A h \in C23_Hits : qres.entries[1].device_id <= h
C23_Witness ==
    /\ qcall.op = "get_device_details" /\ qcall.room = 2001 /\ qcall.type = "AC"
    /\ hotel_model # None /\ Len(loaded_training_df.rows) = 2
    /\ loaded_training_df.rows[1].room = 2001
    /\ loaded_training_df.rows[1].type = "TV"
    /\ loaded_training_df.rows[2].type = "AC"
    /\ qres.raised = "none" /\ qres.entries = <<>>

-----------------------------------------------------------------------------
(* Claims about what a load leaves in the engine *)

\* C24: when a train_model or a load_hotel_data has just ended with success,
\* no row of the loaded table has a null status.
C24_NoNullStatusAfterLoad ==
    ((\E t \in Threads : tpc[t] = "ok") \/ lres = "ok") =>
        \A i \in 1..Len(loaded_training_df.rows) :
            loaded_training_df.rows[i].status # NullStatus

\* C25: a load_hotel_data that ends on an exception, for a name that is not
\* registered, a registered file that is absent or a file lacking columns,
\* leaves the loaded table, the loaded-file label, the model and the metrics
\* as they were.
C25_FailedLoadChangesNothing ==
    [][lres' \in {"ValueError", "FileNotFoundError", "Exception"} =>
          UNCHANGED <<loaded_training_df, loaded_file_path, hotel_model,
                      model_metrics>>]_vars
C25_Witness ==
    /\ lres = "Exception" /\ missing_cols.by = "load_hotel_data"
    /\ loaded_file_path = "FairField.csv" /\ loaded_training_df = HotelFair
    /\ hotel_model.state = "fitted" /\ model_metrics # NoMetrics

\* C26: when a train_model call has ended on an exception raised after the
\* column validation (by the fit, the scoring or the writing of an artifact),
\* the model, the loaded table and the metrics are what they were when the
\* call began, and get_model_status has not gone from "Not Trained" to
\* "Trained".
C26_FailedTrainRestores ==
    \A t \in Threads :
        tpc[t] \in {"FitError", "NotFittedError", "OSError"} =>
            /\ hotel_model = tpre[t].hotel_model
            /\ loaded_training_df = tpre[t].loaded_training_df
            /\ model_metrics = tpre[t].model_metrics
            /\ ~(/\ get_model_status(tpre[t].hotel_model) = "Not Trained"
                 /\ get_model_status(hotel_model) = "Trained")

\* C27: a get_dashboard_insights called while the engine holds a fitted model
\* and a non-empty table returns the statistics, whether the engine got there
\* by train_model, by the reload at startup or by load_hotel_data.
C27_DashboardAnswersWhenLoaded ==
    [][(/\ qcall = NoCall /\ qcall'.op = "get_dashboard_insights"
        /\ hotel_model.state = "fitted" /\ ~IsEmpty(loaded_training_df)) =>
          qres'.raised = "none"]_vars

\* C28: the loaded_data_file a dashboard answer reports names the source of
\* the table loaded at that moment: where it names a hotel file, the loaded
\* table is that file's table, not one a later train_model has put in place.
C28_LoadedFileNamesSource ==
    [][(/\ qcall = NoCall /\ qcall'.op = "get_dashboard_insights"
        /\ qres'.raised = "none") =>
          \A h \in HotelNames :
              qres'.stats.loaded_data_file = HOTEL_CSV_FILES(h) =>
                  loaded_training_df = ReadCsv(HOTEL_CSV_FILES(h))]_vars

\* C29: the working-device count a successful load_hotel_data returns is the
\* running count get_dashboard_insights reports on the table it loaded.
C29_WorkingCountIsRunning ==
    (lres = "ok" /\ hotel_model.state = "fitted") =>
        \A n \in RequestedNames, now \in Clock :
            LET r == load_hotel_data(n) IN
            (r.raised = "ok" /\ r.file = loaded_file_path) =>
                r.working =
                    get_dashboard_insights(hotel_model, loaded_training_df,
                        loaded_file_path, now).stats.running

\* C30: each entry predict_for_room returns for a room and the answer of
\* get_device_details for that room and the entry's appliance type, where it
\* returns, carry the same device_id, previous maintenance date and next
\* maintenance date, however many rows the table holds for that room and type.
C30_DetailsAgreeWithRoomEntry ==
    (qcall.op = "predict_for_room" /\ qres.raised = "none") =>
        \A k \in 1..Len(qres.entries) :
            LET e == qres.entries[k]
                d == get_device_details(hotel_model, loaded_training_df,
                                        qcall.room, e.name, qcall.now)
            IN  d.raised = "none" =>
                    /\ Len(d.entries) = 1
                    /\ d.entries[1].device_id = e.device_id
                    /\ d.entries[1].previous = e.previous
                    /\ d.entries[1].next = e.next

====
